---- MODULE Spec2Model ----
(***************************************************************************)
(* Model of the Digit5 Converter API (src/main.py): the request handlers   *)
(* image_to_pdf, scan_to_pdf, image_to_image, image_compress,              *)
(* pdf_to_images, pdf_merge, pdf_split and cleanup, the helpers            *)
(* _check_secret and _unique_filename, and the output directory they       *)
(* share.                                                                  *)
(*                                                                         *)
(* The only state shared between requests is the output directory, so an   *)
(* action is the stretch of a handler that ends with one operation on the  *)
(* directory (a write, the listing, a remove): the statements before it    *)
(* touch only the request's own locals.  The order of those statements is  *)
(* kept in the request's `events`.                                         *)
(***************************************************************************)
EXTENDS Integers, Sequences, FiniteSets, TLC

VARIABLES
  API_SECRET,   \* os.getenv('API_SECRET'), fixed at start-up
  outputs,      \* the files of OUTPUT_DIR: file name -> content
  outputs0,     \* history: the files of OUTPUT_DIR when the process started
  nextUuid,     \* source of fresh uuid4 values
  req           \* one record per request: inputs, position, locals, response

vars == <<API_SECRET, outputs, outputs0, nextUuid, req>>

\* ------------------------------------------------------------------ bounds
MaxReqs == 2     \* request slots (concurrent requests)
MaxFiles == 2    \* uploads in one multi-file request
MaxPages == 2    \* pages of an uploaded PDF

Reqs == 1..MaxReqs

\* ------------------------------------------------------- program constants
MinQuality == 5
MaxQuality == 95
RasterScale == 2

\* ------------------------------------------------------------ Python values
None == "None"   \* Python's None (no header sent, no variable set)

Truthy(s) == s # None /\ s # ""

\* Strings whose characters the code inspects are sequences of characters.
LowerChar(c) ==
  CASE c = "P" -> "p" [] c = "N" -> "n" [] c = "G" -> "g" [] c = "J" -> "j"
    [] c = "E" -> "e" [] c = "W" -> "w" [] c = "B" -> "b" [] c = "I" -> "i"
    [] c = "F" -> "f" [] c = "D" -> "d"
    [] OTHER -> c

UpperChar(c) ==
  CASE c = "p" -> "P" [] c = "n" -> "N" [] c = "g" -> "G" [] c = "j" -> "J"
    [] c = "e" -> "E" [] c = "w" -> "W" [] c = "b" -> "B" [] c = "i" -> "I"
    [] c = "f" -> "F" [] c = "d" -> "D"
    [] OTHER -> c

lower(s) == [k \in 1..Len(s) |-> LowerChar(s[k])]

upper(s) == [k \in 1..Len(s) |-> UpperChar(s[k])]

RECURSIVE lstrip(_)
lstrip(s) == IF s # <<>> /\ Head(s) = " " THEN lstrip(Tail(s)) ELSE s

RECURSIVE rstrip(_)
rstrip(s) ==
  IF s # <<>> /\ s[Len(s)] = " " THEN rstrip(SubSeq(s, 1, Len(s) - 1)) ELSE s

strip(s) == rstrip(lstrip(s))

PNG == <<"p", "n", "g">>
JPEG == <<"j", "p", "e", "g">>
JPG == <<"j", "p", "g">>
WEBP == <<"w", "e", "b", "p">>
PDF == <<"p", "d", "f">>

\* ----------------------------------------------------------------- uploads
\* An upload is its bytes, described by what the codec libraries make of
\* them.  kind:
\*   "image"     decodes, and img2pdf can pack it
\*   "unpacked"  decodes, but img2pdf.convert raises on it
\*   "truncated" header of an image, damaged data: Image.open succeeds,
\*               verify() and convert('RGB') raise an error that is not
\*               UnidentifiedImageError
\*   "text"      neither an image nor a PDF
\*   "pdf"       a PDF of n pages; page `bad` (0: none) is damaged, so that
\*               rasterizing, copying or merging it raises
Img(kind) == [kind |-> kind, n |-> 0, bad |-> 0]

Pdf(n, bad) == [kind |-> "pdf", n |-> n, bad |-> bad]

Text == Img("text")

ImageUploads == {Img("image"), Img("unpacked"), Img("truncated"), Text}

PdfUploads == {Text} \cup {p \in {Pdf(n, b) : n \in 0..MaxPages, b \in 0..MaxPages} : p.bad <= p.n}

SeqsUpTo(S, k) == UNION {[1..m -> S] : m \in 0..k}

Keys == {None, "", "k1", "k2"}

Secrets == {None, "", "k1"}

TargetFormats == {PNG, JPG, JPEG, WEBP, <<" ", "P", "N", "G">>, <<"J", "p", "e", "g", " ">>, <<"g", "i", "f">>, <<>>}

Qualities == {MinQuality - 1, MinQuality, 75, MaxQuality, MaxQuality + 1}

\* What a write to the output directory can do: complete; fail after the file
\* was created (a partial file stays); fail before it was created.
WriteOutcomes == {"ok", "partial", "nofile"}

\* ---------------------------------------------------------- library models
\* PIL.Image.open: raises UnidentifiedImageError when no decoder knows the bytes.
Image_open(b) == IF b.kind \in {"image", "unpacked", "truncated"} THEN "ok" ELSE "UnidentifiedImageError"

\* Image.open(...).verify(): any exception means "not a valid image".
Image_verify(b) == IF Image_open(b) # "ok" THEN Image_open(b) ELSE IF b.kind = "truncated" THEN "SyntaxError" ELSE "ok"

\* Image.open(...).convert('RGB'): decodes the pixel data.
Image_convert(b) == IF Image_open(b) # "ok" THEN Image_open(b) ELSE IF b.kind = "truncated" THEN "OSError" ELSE "ok"

\* img2pdf.convert(list): TRUE when it returns a PDF.
img2pdf_ok(files) == \A j \in 1..Len(files) : files[j].kind = "image"

\* fitz.open / PyPDF2.PdfReader: TRUE when the bytes open as a PDF.
pdf_opens(b) == b.kind = "pdf"

\* Page p of upload j, as it appears in an output.
Page(j, p) == <<j, p>>

PagesOf(j, b) == [p \in 1..b.n |-> Page(j, p)]

\* ------------------------------------------------------------------- names
Prefix(base, n) == [base |-> base, n |-> n]

\* uuid.uuid4(): a value no earlier call returned.  The 122 random bits are
\* taken as never repeating; which fresh value comes out does not matter to
\* any property here, so the values are numbered in the order of the calls.
uuid4 == nextUuid

\* The name without its random part.
_unique_filename_fixed(prefix, ext) == [prefix |-> prefix, hex |-> 0, ext |-> ext]

\* f"{prefix}_{uuid.uuid4().hex}.{ext}"
_unique_filename(prefix, ext) == [prefix |-> prefix, hex |-> uuid4, ext |-> ext]

\* A path that loses the random part of the name.
out_path_fixed(out_name) == [out_name EXCEPT !.hex = 0]

\* os.path.join(OUTPUT_DIR, out_name): the file's key in the directory.
out_path(out_name) == out_name

\* f"/outputs/{out_name}"
Reference(out_name) == [mount |-> "/outputs", name |-> out_name]

NoName == [prefix |-> Prefix("", 0), hex |-> 0 - 1, ext |-> <<>>]

File(fmt, pages, quality, scale) == [fmt |-> fmt, pages |-> pages, quality |-> quality, scale |-> scale, complete |-> TRUE]

Partial(content) == [content EXCEPT !.complete = FALSE]

\* open(out_path, 'wb') and the write into it, with outcome io.
StoreWrite(dir, name, content, io) ==
  CASE io = "ok" -> [n \in DOMAIN dir \cup {name} |-> IF n = name THEN content ELSE dir[n]]
    [] io = "partial" -> [n \in DOMAIN dir \cup {name} |-> IF n = name THEN Partial(content) ELSE dir[n]]
    [] OTHER -> dir

\* ---------------------------------------------------------------- requests
Ev(e, j) == [e |-> e, j |-> j]

IdleReq ==
  [op |-> "none", pc |-> "idle", key |-> None, files |-> <<>>, target |-> <<>>,
   quality |-> 0, i |-> 0, out_files |-> <<>>, status |-> 0, err |-> "none",
   offender |-> 0, filename |-> NoName, fileUrl |-> Reference(NoName),
   pageCount |-> 0, removed |-> 0, events |-> <<>>, wrote |-> <<>>,
   todo |-> {}, listed |-> {}, deleted |-> {}]

\* raise HTTPException(status_code, ...): the request ends with an error.
Raise(rq, events, status, err) == [rq EXCEPT !.pc = "done", !.events = @ \o events, !.status = status, !.err = err]

\* The request record after a write of `content` under `name` with outcome io.
Wrote(rq, name, content, io) ==
  IF io = "nofile" THEN rq
  ELSE [rq EXCEPT !.wrote = Append(@, [name |-> name, content |-> IF io = "ok" THEN content ELSE Partial(content)])]

\* The guard without the comparison: any key that is sent passes.
_check_secret_any_key(x_api_key) ==
  ~(Truthy(API_SECRET) /\ ~Truthy(x_api_key))

\* _check_secret: TRUE when it returns, FALSE when it raises the 401.
_check_secret(x_api_key) ==
  ~(Truthy(API_SECRET) /\ (~Truthy(x_api_key) \/ x_api_key # API_SECRET))

\* The events of reading and validating uploads 1..k, in the loop's order:
\* f.read(), Image.open(...) (the decode attempt), verify() passed.
ReadValidate(k) ==
  [x \in 1..(3 * k) |->
     CASE x % 3 = 1 -> Ev("read", (x + 2) \div 3)
       [] x % 3 = 2 -> Ev("decode", (x + 1) \div 3)
       [] OTHER -> Ev("validate", x \div 3)]

\* images_bytes.append(content)
list_append(list, x) == Append(list, x)

\* The images_bytes list after the loop over uploads j..Len(files).
RECURSIVE images_bytes(_, _, _)
images_bytes(files, j, acc) ==
  IF j > Len(files) THEN acc ELSE images_bytes(files, j + 1, list_append(acc, Page(j, 1)))

\* First upload that verify() rejects (0: none).
FirstInvalidImage(files) ==
  IF \E j \in 1..Len(files) : Image_verify(files[j]) # "ok"
  THEN CHOOSE j \in 1..Len(files) : Image_verify(files[j]) # "ok" /\ \A m \in 1..(j - 1) : Image_verify(files[m]) = "ok"
  ELSE 0

Auth == <<Ev("auth", 0)>>

\* A request that ends without touching the output directory.
Ends(r, rq) == req' = [req EXCEPT ![r] = rq] /\ UNCHANGED <<API_SECRET, outputs, outputs0, nextUuid>>

\* ------------------------------------------------- /convert/image-to-pdf
ImageToPdf(r, op, x_api_key, files, io) ==
  /\ req[r].pc = "idle"
  /\ LET rq == [req[r] EXCEPT !.op = op, !.key = x_api_key, !.files = files]
         k == Len(files)
         bad == FirstInvalidImage(files)
         out_name == _unique_filename(Prefix("converted", 0), PDF)
         pdf_bytes == File(upper(PDF), images_bytes(files, 1, <<>>), 0, 1)
         before == Auth \o ReadValidate(k) \o <<Ev("convert", 0)>>
         after == Wrote(rq, out_name, pdf_bytes, io)
     IN  IF ~_check_secret(x_api_key) THEN Ends(r, Raise(rq, Auth, 401, "Unauthorized"))
         ELSE IF k = 0 THEN Ends(r, Raise(rq, Auth, 400, "BadUpload"))
         ELSE IF bad # 0
         THEN Ends(r, [Raise(rq, Auth \o ReadValidate(bad - 1) \o <<Ev("read", bad), Ev("decode", bad)>>, 400, "InvalidImage") EXCEPT !.offender = bad])
         ELSE IF ~img2pdf_ok(files) THEN Ends(r, Raise(rq, before, 500, "ConversionError"))
         ELSE /\ nextUuid' = nextUuid + 1
              /\ outputs' = StoreWrite(outputs, out_path(out_name), pdf_bytes, io)
              /\ req' = [req EXCEPT ![r] =
                   IF io = "ok"
                   THEN [after EXCEPT !.pc = "done", !.events = before \o <<Ev("write", 0)>>,
                           !.status = 200, !.filename = out_name, !.fileUrl = Reference(out_name)]
                   ELSE Raise(after, before \o <<Ev("write", 0)>>, 500, "StorageError")]
              /\ UNCHANGED <<API_SECRET, outputs0>>

image_to_pdf(r, x_api_key, files, io) == ImageToPdf(r, "image-to-pdf", x_api_key, files, io)

\* alias of image_to_pdf
scan_to_pdf(r, x_api_key, files, io) == ImageToPdf(r, "scan-to-pdf", x_api_key, files, io)

\* ----------------------------------------------- /convert/image-to-image
\* The part the two single-image handlers share: _check_secret, file.read(),
\* Image.open(...).convert('RGB') with its except clause: the request with
\* the image decoded, or ended by the error.
DecodeRGB(rq, x_api_key, file) ==
  IF ~_check_secret(x_api_key) THEN Raise(rq, Auth, 401, "Unauthorized")
  ELSE IF Image_open(file) = "UnidentifiedImageError"
  THEN Raise(rq, Auth \o <<Ev("read", 1), Ev("decode", 1)>>, 400, "InvalidImage")
  ELSE IF Image_convert(file) # "ok"
  THEN Raise(rq, Auth \o <<Ev("read", 1), Ev("decode", 1), Ev("validate", 1), Ev("normalize", 1)>>, 500, "InternalError")
  ELSE [rq EXCEPT !.events = Auth \o <<Ev("read", 1), Ev("decode", 1), Ev("validate", 1), Ev("normalize", 1)>>]

\* img.save(out_path, ...) and the response.
SaveImage(r, rq, out_name, content, io) ==
  /\ nextUuid' = nextUuid + 1
  /\ outputs' = StoreWrite(outputs, out_path(out_name), content, io)
  /\ req' = [req EXCEPT ![r] =
       IF io = "ok"
       THEN [Wrote(rq, out_name, content, io) EXCEPT !.pc = "done", !.events = @ \o <<Ev("param", 0), Ev("convert", 1), Ev("write", 0)>>,
               !.status = 200, !.filename = out_name, !.fileUrl = Reference(out_name)]
       ELSE Raise(Wrote(rq, out_name, content, io), <<Ev("param", 0), Ev("convert", 1), Ev("write", 0)>>, 500, "StorageError")]
  /\ UNCHANGED <<API_SECRET, outputs0>>

SupportedTargets == {PNG, JPEG, JPG, WEBP}

image_to_image(r, x_api_key, file, target_format, io) ==
  /\ req[r].pc = "idle"
  /\ LET rq == [req[r] EXCEPT !.op = "image-to-image", !.key = x_api_key, !.files = <<file>>, !.target = target_format]
         img == DecodeRGB(rq, x_api_key, file)
         target == strip(lower(target_format))
         out_ext == IF target \in {JPG, JPEG} THEN JPG ELSE target
         format == IF out_ext = JPG THEN upper(JPEG) ELSE upper(out_ext)
         out_name == _unique_filename(Prefix("converted_img", 0), out_ext)
     IN  IF img.pc = "done" THEN Ends(r, img)
         ELSE IF target \notin SupportedTargets THEN Ends(r, Raise(img, <<Ev("param", 0)>>, 400, "InvalidParameter"))
         ELSE SaveImage(r, img, out_name, File(format, <<Page(1, 1)>>, 0, 1), io)

\* ---------------------------------------------- /convert/image-compress
image_compress(r, x_api_key, file, quality, io) ==
  /\ req[r].pc = "idle"
  /\ LET rq == [req[r] EXCEPT !.op = "image-compress", !.key = x_api_key, !.files = <<file>>, !.quality = quality]
         img == DecodeRGB(rq, x_api_key, file)
         out_name == _unique_filename(Prefix("compressed", 0), JPG)
     IN  IF img.pc = "done" THEN Ends(r, img)
         ELSE IF quality < MinQuality \/ quality > MaxQuality THEN Ends(r, Raise(img, <<Ev("param", 0)>>, 400, "InvalidParameter"))
         ELSE SaveImage(r, img, out_name, File(upper(JPEG), <<Page(1, 1)>>, quality, 1), io)

\* ----------------------------- /convert/pdf-to-images, /convert/pdf-split
\* _check_secret, file.read(), and opening the PDF (fitz.open, PdfReader).
\* A PDF without pages skips the loop and returns at once.
OpenPdf(r, op, x_api_key, file) ==
  /\ req[r].pc = "idle"
  /\ LET rq == [req[r] EXCEPT !.op = op, !.key = x_api_key, !.files = <<file>>]
         opened == Auth \o <<Ev("read", 1), Ev("decode", 1), Ev("validate", 1)>>
     IN  IF ~_check_secret(x_api_key) THEN Ends(r, Raise(rq, Auth, 401, "Unauthorized"))
         ELSE IF ~pdf_opens(file) THEN Ends(r, Raise(rq, Auth \o <<Ev("read", 1), Ev("decode", 1)>>, 400, "InvalidPdf"))
         ELSE IF file.n = 0 THEN Ends(r, [rq EXCEPT !.pc = "done", !.events = opened, !.status = 200, !.pageCount = Len(rq.out_files)])
         ELSE Ends(r, [rq EXCEPT !.pc = "pages", !.events = opened])

Range(f) == {f[x] : x \in DOMAIN f}

\* A handler that removes what the request wrote when a later turn fails.
unwind_rollback(dir, rq) == [n \in DOMAIN dir \ {w.name : w \in Range(rq.wrote)} |-> dir[n]]

\* An exception leaves the loop and the handler: no except or finally clause
\* undoes the writes of the earlier turns, the directory stays as it is.
unwind(dir, rq) == dir

\* The prefix numbered from 0.
PagePrefix_zero(base, i) == Prefix(base, i)

\* f'page_{i+1}' / f'split_{i+1}': i is enumerate's 0-based index.
PagePrefix(base, i) == Prefix(base, i + 1)

\* One turn of the loop over the pages: convert page i+1, write it under a
\* fresh name, append its reference; after the last page, the response.
PageStep(r, op, base, ext, fmt, scale, io) ==
  /\ req[r].pc = "pages"
  /\ req[r].op = op
  /\ LET rq == req[r]
         file == rq.files[1]
         i == rq.i
         out_name == _unique_filename(PagePrefix(base, i), ext)
         content == File(fmt, <<Page(1, i + 1)>>, 0, scale)
         after == [Wrote(rq, out_name, content, io) EXCEPT !.events = @ \o <<Ev("convert", 1), Ev("write", i + 1)>>]
         out_files == Append(rq.out_files, Reference(out_name))
     IN  IF file.bad = i + 1
         THEN /\ req' = [req EXCEPT ![r] = Raise(rq, <<Ev("convert", 1)>>, 500, "InternalError")]
              /\ outputs' = unwind(outputs, rq)
              /\ UNCHANGED <<API_SECRET, outputs0, nextUuid>>
         ELSE /\ nextUuid' = nextUuid + 1
              /\ outputs' = IF io = "ok" THEN StoreWrite(outputs, out_path(out_name), content, io)
                             ELSE unwind(StoreWrite(outputs, out_path(out_name), content, io), rq)
              /\ req' = [req EXCEPT ![r] =
                   IF io # "ok" THEN Raise(after, <<>>, 500, "StorageError")
                   ELSE IF i + 1 = file.n
                   THEN [after EXCEPT !.pc = "done", !.i = i + 1, !.out_files = out_files, !.status = 200, !.pageCount = Len(out_files)]
                   ELSE [after EXCEPT !.i = i + 1, !.out_files = out_files]]
              /\ UNCHANGED <<API_SECRET, outputs0>>

pdf_to_images_open(r, x_api_key, file) == OpenPdf(r, "pdf-to-images", x_api_key, file)

pdf_to_images_page(r, io) == PageStep(r, "pdf-to-images", "page", PNG, upper(PNG), RasterScale, io)

pdf_split_open(r, x_api_key, file) == OpenPdf(r, "pdf-split", x_api_key, file)

pdf_split_page(r, io) == PageStep(r, "pdf-split", "split", PDF, upper(PDF), 1, io)

\* ---------------------------------------------------- /convert/pdf-merge
\* merger.append(reader_stream): TRUE when it returns.
merger_append_ok(b) == b.kind = "pdf" /\ b.bad = 0

\* A merger that puts each new document in front.
merger_append_front(pages, more) == more \o pages

\* The merger's pages after appending upload j's.
merger_append(pages, more) == pages \o more

RECURSIVE merged_pages(_, _, _)
merged_pages(files, j, acc) ==
  IF j > Len(files) THEN acc ELSE merged_pages(files, j + 1, merger_append(acc, PagesOf(j, files[j])))

\* f.read() and merger.append for uploads 1..k.
ReadAppend(k) == [x \in 1..(2 * k) |-> IF x % 2 = 1 THEN Ev("read", (x + 1) \div 2) ELSE Ev("convert", x \div 2)]

FirstUnmergeable(files) ==
  IF \E j \in 1..Len(files) : ~merger_append_ok(files[j])
  THEN CHOOSE j \in 1..Len(files) : ~merger_append_ok(files[j]) /\ \A m \in 1..(j - 1) : merger_append_ok(files[m])
  ELSE 0

pdf_merge(r, x_api_key, files, io) ==
  /\ req[r].pc = "idle"
  /\ LET rq == [req[r] EXCEPT !.op = "pdf-merge", !.key = x_api_key, !.files = files]
         k == Len(files)
         bad == FirstUnmergeable(files)
         out_name == _unique_filename(Prefix("merged", 0), PDF)
         content == File(upper(PDF), merged_pages(files, 1, <<>>), 0, 1)
         before == Auth \o ReadAppend(k) \o <<Ev("write", 0)>>
         after == Wrote(rq, out_name, content, io)
     IN  IF ~_check_secret(x_api_key) THEN Ends(r, Raise(rq, Auth, 401, "Unauthorized"))
         ELSE IF k < 2 THEN Ends(r, Raise(rq, Auth, 400, "BadUpload"))
         ELSE IF bad # 0 THEN Ends(r, [Raise(rq, Auth \o ReadAppend(bad), 500, "MergeError") EXCEPT !.offender = bad])
         ELSE /\ nextUuid' = nextUuid + 1
              /\ outputs' = StoreWrite(outputs, out_path(out_name), content, io)
              /\ req' = [req EXCEPT ![r] =
                   IF io = "ok"
                   THEN [after EXCEPT !.pc = "done", !.events = before, !.status = 200, !.filename = out_name, !.fileUrl = Reference(out_name)]
                   ELSE Raise(after, before, 500, "MergeError")]
              /\ UNCHANGED <<API_SECRET, outputs0>>

\* ----------------------------------------------------------------- /cleanup
\* _check_secret and os.listdir(OUTPUT_DIR); an empty listing returns at once.
cleanup_list(r, x_api_key) ==
  /\ req[r].pc = "idle"
  /\ LET rq == [req[r] EXCEPT !.op = "cleanup", !.key = x_api_key]
         listing == DOMAIN outputs
     IN  IF ~_check_secret(x_api_key) THEN Ends(r, Raise(rq, Auth, 401, "Unauthorized"))
         ELSE IF listing = {} THEN Ends(r, [rq EXCEPT !.pc = "done", !.events = Auth \o <<Ev("list", 0)>>, !.status = 200])
         ELSE Ends(r, [rq EXCEPT !.pc = "sweep", !.events = Auth \o <<Ev("list", 0)>>, !.listed = listing, !.todo = listing])

\* The count taken outside the try block.
count_removed_always(removed, succeeded) == removed + 1

\* try: os.remove(...); removed += 1 / except Exception: pass
count_removed(removed, succeeded) == IF succeeded THEN removed + 1 ELSE removed

\* os.remove of one listed entry: it succeeds only on a file that is still
\* there, and can fail on one that is (`can` FALSE); after the last entry,
\* the response.
cleanup_remove(r, fn, can) ==
  /\ req[r].pc = "sweep"
  /\ fn \in req[r].todo
  /\ LET rq == req[r]
         succeeded == fn \in DOMAIN outputs /\ can
         left == rq.todo \ {fn}
         after == [rq EXCEPT !.todo = left, !.removed = count_removed(@, succeeded),
                             !.deleted = IF succeeded THEN @ \cup {fn} ELSE @,
                             !.events = Append(@, Ev("remove", 0))]
     IN  /\ outputs' = IF succeeded THEN [n \in DOMAIN outputs \ {fn} |-> outputs[n]] ELSE outputs
         /\ req' = [req EXCEPT ![r] = IF left = {} THEN [after EXCEPT !.pc = "done", !.status = 200] ELSE after]
         /\ UNCHANGED <<API_SECRET, outputs0, nextUuid>>

\* ------------------------------------------------------ the specifications
OldName == [prefix |-> Prefix("converted", 0), hex |-> 0, ext |-> PDF]

OldFile == File(upper(PDF), <<Page(1, 1)>>, 0, 1)

\* The keys a request arriving at slot r may carry: a slot takes one request.
Arriving(r, keys) == IF req[r].pc = "idle" THEN keys ELSE {}

\* One request, with every input: the output directory is empty or holds a
\* file of an earlier run.
Init ==
  /\ API_SECRET \in Secrets
  /\ outputs \in {<< >>, [n \in {OldName} |-> OldFile]}
  /\ outputs0 = outputs
  /\ nextUuid = 1
  /\ req = [r \in Reqs |-> IdleReq]

Next ==
  \/ \E x_api_key \in Arriving(1, Keys), files \in SeqsUpTo(ImageUploads, MaxFiles), io \in WriteOutcomes : image_to_pdf(1, x_api_key, files, io)
  \/ \E x_api_key \in Arriving(1, Keys), files \in SeqsUpTo(ImageUploads, MaxFiles), io \in WriteOutcomes : scan_to_pdf(1, x_api_key, files, io)
  \/ \E x_api_key \in Arriving(1, Keys), file \in ImageUploads, target_format \in TargetFormats, io \in WriteOutcomes : image_to_image(1, x_api_key, file, target_format, io)
  \/ \E x_api_key \in Arriving(1, Keys), file \in ImageUploads, quality \in Qualities, io \in WriteOutcomes : image_compress(1, x_api_key, file, quality, io)
  \/ \E x_api_key \in Arriving(1, Keys), file \in PdfUploads : pdf_to_images_open(1, x_api_key, file)
  \/ \E io \in WriteOutcomes : pdf_to_images_page(1, io)
  \/ \E x_api_key \in Arriving(1, Keys), files \in SeqsUpTo(PdfUploads, MaxFiles), io \in WriteOutcomes : pdf_merge(1, x_api_key, files, io)
  \/ \E x_api_key \in Arriving(1, Keys), file \in PdfUploads : pdf_split_open(1, x_api_key, file)
  \/ \E io \in WriteOutcomes : pdf_split_page(1, io)
  \/ \E x_api_key \in Arriving(1, Keys) : cleanup_list(1, x_api_key)
  \/ \E fn \in DOMAIN outputs, can \in BOOLEAN : cleanup_remove(1, fn, can)

Spec == Init /\ [][Next]_vars

\* Concurrent requests, one per slot, interleaved at their operations on the
\* output directory, which holds a file of an earlier run; authentication is
\* off and the uploads are well-formed, except that a PDF may have a damaged
\* last page.
ConcImages == {<<Img("image")>>}

ConcPdfs == {Pdf(2, 0), Pdf(2, 2)}

ConcOutcomes == {"ok", "partial"}

ConcMerge == {<<Pdf(1, 0), Pdf(1, 0)>>}

InitConc ==
  /\ API_SECRET = None
  /\ outputs = [n \in {OldName} |-> OldFile]
  /\ outputs0 = outputs
  /\ nextUuid = 1
  /\ req = [r \in Reqs |-> IdleReq]

NextConc ==
  \E r \in Reqs :
    \/ \E x_api_key \in Arriving(r, {None}), files \in ConcImages, io \in ConcOutcomes : image_to_pdf(r, x_api_key, files, io)
    \/ \E x_api_key \in Arriving(r, {None}), files \in ConcImages, io \in ConcOutcomes : scan_to_pdf(r, x_api_key, files, io)
    \/ \E x_api_key \in Arriving(r, {None}), io \in ConcOutcomes : image_to_image(r, x_api_key, Img("image"), WEBP, io)
    \/ \E x_api_key \in Arriving(r, {None}), io \in ConcOutcomes : image_compress(r, x_api_key, Img("image"), 75, io)
    \/ \E x_api_key \in Arriving(r, {None}) : pdf_to_images_open(r, x_api_key, Pdf(2, 0))
    \/ \E io \in ConcOutcomes : pdf_to_images_page(r, io)
    \/ \E x_api_key \in Arriving(r, {None}), files \in ConcMerge, io \in ConcOutcomes : pdf_merge(r, x_api_key, files, io)
    \/ \E x_api_key \in Arriving(r, {None}), file \in ConcPdfs : pdf_split_open(r, x_api_key, file)
    \/ \E io \in ConcOutcomes : pdf_split_page(r, io)
    \/ \E x_api_key \in Arriving(r, {None}) : cleanup_list(r, x_api_key)
    \/ \E fn \in DOMAIN outputs, can \in BOOLEAN : cleanup_remove(r, fn, can)

SpecConc == InitConc /\ [][NextConc]_vars

\* ------------------------------------------------------------- the claims
Done(r) == req[r].pc = "done"

Ok(r) == Done(r) /\ req[r].status = 200

Failed(r) == Done(r) /\ req[r].status # 200

Authorized(r) == Done(r) /\ req[r].status # 401

ImageOps == {"image-to-pdf", "scan-to-pdf", "image-to-image", "image-compress"}

PageOps == {"pdf-to-images", "pdf-split"}

ConvertOps == ImageOps \cup PageOps \cup {"pdf-merge"}

\* Event e of upload j is in the request's events at position x.
At(r, x, e, j) == x \in DOMAIN req[r].events /\ req[r].events[x] = Ev(e, j)

Has(r, e) == \E x \in DOMAIN req[r].events : req[r].events[x].e = e

\* The files the request created that are complete.
Complete(r) == {x \in DOMAIN req[r].wrote : req[r].wrote[x].content.complete}

\* File x of request r is in the directory as the request wrote it.
OnDisk(r, x) ==
  LET w == req[r].wrote[x]
  IN  w.name \in DOMAIN outputs /\ outputs[w.name] = w.content

\* C1 (as claimed): a failed conversion request leaves no artifact in the
\* output directory: every complete file in the directory after the failure
\* was there before the request.  (A partial file left by a failed write is
\* not counted against the claim.)
C1_NoArtifactAfterFailure ==
  \A r \in Reqs : Failed(r) /\ req[r].op \in ConvertOps =>
    {n \in DOMAIN outputs : outputs[n].complete} = DOMAIN outputs0

\* C1 (amended): a request that fails at the auth guard, the upload count,
\* the format validation, the parameter check or in the converter before its
\* first write leaves the output directory as it was; a failed request
\* removes nothing; and when PDF Split or PDF->Images fails on page k, the
\* k - 1 files written for pages 1..k-1 stay in the directory (a failed
\* write may leave one partial file more).
C1_FailureKeepsEarlierPages ==
  \A r \in Reqs : Failed(r) /\ req[r].op \in ConvertOps =>
    LET rq == req[r]
    IN  /\ \A n \in DOMAIN outputs0 : n \in DOMAIN outputs /\ outputs[n] = outputs0[n]
        /\ DOMAIN outputs = DOMAIN outputs0 \cup {rq.wrote[x].name : x \in DOMAIN rq.wrote}
        /\ \A x \in DOMAIN rq.wrote : OnDisk(r, x)
        /\ ~Has(r, "write") => rq.wrote = <<>>
        /\ rq.status \in {400, 401} => ~Has(r, "write")
        /\ rq.op \notin PageOps => Complete(r) = {}
        /\ rq.op \in PageOps =>
             /\ Complete(r) = 1..rq.i
             /\ Len(rq.wrote) \in {rq.i, rq.i + 1}
             /\ \A x \in 1..rq.i : rq.wrote[x].name.prefix.n = x /\ rq.wrote[x].content.pages = <<Page(1, x)>>

\* C1 witness: PDF Split failed on page 2 and the file of page 1 is in the directory.
C1_Witness ==
  \E r \in Reqs : Failed(r) /\ req[r].op = "pdf-split" /\ req[r].i = 1 /\ OnDisk(r, 1)
    /\ req[r].wrote[1].content.complete /\ req[r].err = "InternalError"

\* The uploads of request r that its handler's format validator rejects.
RejectedBy(r) ==
  {j \in DOMAIN req[r].files :
     IF req[r].op \in {"image-to-pdf", "scan-to-pdf"} THEN Image_verify(req[r].files[j]) # "ok"
     ELSE IF req[r].op \in {"image-to-image", "image-compress"} THEN Image_open(req[r].files[j]) # "ok"
     ELSE ~pdf_opens(req[r].files[j])}

\* C2 (as claimed): in every conversion handler a converter call on upload j
\* (j = 0: on all uploads) comes after the validation of that upload, and a
\* request that read an upload its validator rejects ends with a 400
\* InvalidImage / InvalidPdf.
C2_ValidatedBeforeConverted ==
  \A r \in Reqs : req[r].op \in ConvertOps =>
    /\ \A x \in DOMAIN req[r].events : req[r].events[x].e = "convert" =>
         \A j \in DOMAIN req[r].files : (req[r].events[x].j \in {0, j}) =>
           \E y \in 1..(x - 1) : At(r, y, "validate", j)
    /\ \A j \in RejectedBy(r) : Done(r) /\ (\E x \in DOMAIN req[r].events : At(r, x, "read", j)) =>
         req[r].status = 400 /\ req[r].err \in {"InvalidImage", "InvalidPdf"}

\* What the claim calls a passing guard.
GuardPasses(r) == ~Truthy(API_SECRET) \/ req[r].key = API_SECRET

\* C3: the guard passes exactly when no secret is configured (unset or empty)
\* or the key equals the secret; a request that fails it, on a convert
\* endpoint or on cleanup, ends with 401 Unauthorized before any upload is
\* read and with the output directory as it was.
C3_AuthGuard ==
  \A r \in Reqs : req[r].pc # "idle" =>
    /\ (req[r].status = 401) <=> ~GuardPasses(r)
    /\ ~GuardPasses(r) =>
         /\ Done(r) /\ req[r].err = "Unauthorized"
         /\ ~Has(r, "read") /\ ~Has(r, "list") /\ ~Has(r, "write") /\ ~Has(r, "remove")
         /\ req[r].wrote = <<>> /\ req[r].deleted = {}
         /\ outputs = outputs0

\* C3 witness: a cleanup with a wrong key was refused while the directory holds a file.
C3_Witness ==
  \E r \in Reqs : req[r].op = "cleanup" /\ req[r].status = 401 /\ Truthy(req[r].key)
    /\ OldName \in DOMAIN outputs

\* The parameter of request r is out of range.
BadParameter(r) ==
  \/ req[r].op = "image-to-image" /\ strip(lower(req[r].target)) \notin SupportedTargets
  \/ req[r].op = "image-compress" /\ (req[r].quality < MinQuality \/ req[r].quality > MaxQuality)

\* C4 (as claimed): an authorized Image->Image or Image Compress request with
\* a bad parameter ends with InvalidParameter, whatever the upload, before the
\* upload is decoded or colour-normalized and without a write; with a
\* decodable image and a quality in range, Image Compress writes exactly one
\* file (unless the disk fails).
C4_ParametersFirst ==
  \A r \in Reqs : Authorized(r) /\ req[r].op \in {"image-to-image", "image-compress"} =>
    /\ BadParameter(r) =>
         /\ req[r].status = 400 /\ req[r].err = "InvalidParameter"
         /\ ~Has(r, "decode") /\ ~Has(r, "normalize") /\ ~Has(r, "write")
         /\ outputs = outputs0
    /\ (req[r].op = "image-compress" /\ ~BadParameter(r) /\ Image_convert(req[r].files[1]) = "ok" /\ req[r].err # "StorageError") =>
         Ok(r) /\ Len(req[r].wrote) = 1 /\ OnDisk(r, 1)

\* C5 (as claimed): on an image endpoint an upload that does not decode as an
\* image, unrecognized or corrupt, makes the request end with 400
\* InvalidImage and the output directory as it was.
C5_UndecodableIsInvalidImage ==
  \A r \in Reqs : Authorized(r) /\ req[r].op \in ImageOps =>
    ((\E j \in DOMAIN req[r].files : Image_convert(req[r].files[j]) # "ok") =>
       req[r].status = 400 /\ req[r].err = "InvalidImage" /\ outputs = outputs0)

\* Every file any request created, tagged with its request and position.
AllWrites == UNION {{<<r, x>> : x \in DOMAIN req[r].wrote} : r \in Reqs}

DeletedByCleanup == UNION {req[c].deleted : c \in Reqs}

\* The names the response of request r refers to.
Referred(r) ==
  IF req[r].op \in PageOps THEN {req[r].out_files[x].name : x \in DOMAIN req[r].out_files}
  ELSE IF req[r].op \in ConvertOps /\ Ok(r) THEN {req[r].fileUrl.name}
  ELSE {}

\* C6: under any interleaving, the names under which files are created are
\* pairwise distinct, within a request and across requests; a request fails
\* only on its own upload or its own write; and every file a request refers
\* to is a complete file it wrote itself, on disk as written unless a cleanup
\* deleted it.
C6_DistinctNames ==
  /\ \A a \in AllWrites, b \in AllWrites : a # b => req[a[1]].wrote[a[2]].name # req[b[1]].wrote[b[2]].name
  /\ \A r \in Reqs : req[r].op \in ConvertOps =>
       /\ Failed(r) => \/ req[r].err \in {"StorageError", "MergeError"} /\ Len(req[r].wrote) <= Len(req[r].out_files) + 1
                       \/ req[r].err = "InternalError" /\ req[r].files[1].bad = req[r].i + 1
       /\ Ok(r) => Referred(r) # {} /\ Complete(r) = DOMAIN req[r].wrote
       /\ \A n \in Referred(r) : \E x \in Complete(r) :
            /\ req[r].wrote[x].name = n
            /\ OnDisk(r, x) \/ n \in DeletedByCleanup

\* C6 witness: two identical requests both succeeded, each with its own file on disk.
C6_Witness ==
  \E r \in Reqs, s \in Reqs :
    /\ r # s /\ Ok(r) /\ Ok(s) /\ req[r].op = "image-to-pdf" /\ req[s].op = "image-to-pdf"
    /\ req[r].files = req[s].files /\ OnDisk(r, 1) /\ OnDisk(s, 1)
    /\ req[r].filename # req[s].filename

CleanupStep(r) == req[r].op = "cleanup" /\ req[r].pc = "sweep" /\ req'[r] # req[r]

\* What C8 says of one step.
WrittenOnceStep ==
  /\ \A n \in DOMAIN outputs :
       IF n \in DOMAIN outputs' THEN outputs'[n] = outputs[n]
       ELSE \E r \in Reqs : CleanupStep(r) /\ n \in req'[r].deleted
  /\ \A r \in Reqs : Len(req'[r].wrote) > Len(req[r].wrote) =>
       /\ Len(req'[r].wrote) = Len(req[r].wrote) + 1
       /\ DOMAIN outputs' \ DOMAIN outputs = {req'[r].wrote[Len(req'[r].wrote)].name}
  /\ \A r \in Reqs : req'[r] # req[r] /\ req'[r].op \in ConvertOps =>
       DOMAIN outputs \subseteq DOMAIN outputs'

\* C8: a file in the output directory keeps its content in every step; it
\* leaves the directory only in a step of a cleanup, never in a step of a
\* conversion request, successful or failed; and a step that creates a file
\* creates it under a path that held no file, one path per file.
C8_WrittenOnceNeverMutated == [][WrittenOnceStep]_vars

\* C8 witness: a file written by one request is on disk unchanged after a
\* later conversion request has failed and another has written.
C8_Witness ==
  \E r \in Reqs, s \in Reqs :
    /\ r # s /\ Ok(r) /\ Failed(s) /\ req[r].op \in ConvertOps /\ req[s].op \in ConvertOps
    /\ OnDisk(r, 1) /\ req[s].wrote # <<>>
    /\ req[s].wrote[1].name.hex > req[r].wrote[1].name.hex

\* Pages before those of upload j in a merge of `files`.
RECURSIVE Offset(_, _)
Offset(files, j) == IF j <= 1 THEN 0 ELSE Offset(files, j - 1) + files[j - 1].n

\* C9: a successful Image->PDF over k uploads wrote one PDF of k pages, page
\* i being upload i; a successful PDF Merge wrote one PDF that holds the
\* pages of the uploads in upload order, p1 + ... + pn pages; with valid
\* uploads the two fail only when the write fails; and PDF Merge with fewer
\* than 2 uploads ends with a 400 and writes nothing.
C9_UploadOrder ==
  \A r \in Reqs : Authorized(r) =>
    LET rq == req[r]
        k == Len(rq.files)
        pages == outputs[rq.filename].pages
    IN  /\ rq.op \in {"image-to-pdf", "scan-to-pdf"} =>
             /\ Ok(r) => /\ Len(rq.wrote) = 1 /\ OnDisk(r, 1) /\ rq.wrote[1].name = rq.filename
                         /\ rq.fileUrl = Reference(rq.filename)
                         /\ outputs[rq.filename].complete
                         /\ k >= 1 /\ Len(pages) = k
                         /\ \A j \in 1..k : pages[j] = Page(j, 1)
             /\ (k >= 1 /\ \A j \in 1..k : rq.files[j].kind = "image") => Ok(r) \/ rq.err = "StorageError"
        /\ rq.op = "pdf-merge" =>
             /\ Ok(r) => /\ Len(rq.wrote) = 1 /\ OnDisk(r, 1) /\ rq.wrote[1].name = rq.filename
                         /\ rq.fileUrl = Reference(rq.filename)
                         /\ outputs[rq.filename].complete
                         /\ k >= 2 /\ Len(pages) = Offset(rq.files, k + 1)
                         /\ \A j \in 1..k : \A p \in 1..rq.files[j].n : pages[Offset(rq.files, j) + p] = Page(j, p)
             /\ (k >= 2 /\ \A j \in 1..k : rq.files[j].kind = "pdf" /\ rq.files[j].bad = 0) =>
                  Ok(r) \/ (rq.err = "MergeError" /\ Has(r, "write"))
             /\ k < 2 => rq.status = 400 /\ rq.wrote = <<>> /\ outputs = outputs0

\* C9 witness: a merge of a 2-page and a 1-page PDF succeeded.
C9_Witness ==
  \E r \in Reqs : Ok(r) /\ req[r].op = "pdf-merge" /\ Len(req[r].files) = 2
    /\ req[r].files[1].n = 2 /\ req[r].files[2].n = 1
    /\ outputs[req[r].filename].pages = <<Page(1, 1), Page(1, 2), Page(2, 1)>>

\* C10: a successful PDF->Images or PDF Split of an N-page PDF wrote N files
\* and returns N references, the i-th being /outputs/<name> of the file made
\* from page i, named page_i / split_i, with pageCount N; a valid PDF fails
\* only when a write fails; for N = 0 the request succeeds with no file.
C10_OneFilePerPage ==
  \A r \in Reqs : Authorized(r) /\ req[r].op \in PageOps =>
    LET rq == req[r]
        N == rq.files[1].n
        base == IF rq.op = "pdf-split" THEN "split" ELSE "page"
    IN  /\ Ok(r) =>
             /\ Len(rq.out_files) = N /\ rq.pageCount = N /\ Len(rq.wrote) = N
             /\ DOMAIN outputs = DOMAIN outputs0 \cup {rq.wrote[x].name : x \in 1..N}
             /\ \A x \in 1..N :
                  /\ rq.out_files[x] = [mount |-> "/outputs", name |-> rq.wrote[x].name]
                  /\ rq.wrote[x].name.prefix = [base |-> base, n |-> x]
                  /\ rq.wrote[x].content.pages = <<Page(1, x)>>
                  /\ rq.wrote[x].content.complete
                  /\ OnDisk(r, x)
        /\ (pdf_opens(rq.files[1]) /\ rq.files[1].bad = 0) => Ok(r) \/ rq.err = "StorageError"
        /\ (pdf_opens(rq.files[1]) /\ N = 0) => Ok(r) /\ rq.out_files = <<>> /\ rq.pageCount = 0 /\ outputs = outputs0

\* C10 witness: a split of a 2-page PDF succeeded.
C10_Witness ==
  \E r \in Reqs : Ok(r) /\ req[r].op = "pdf-split" /\ req[r].files[1].n = 2 /\ Len(req[r].out_files) = 2
====
